---------------------------- MODULE Spec2Model ----------------------------
(***************************************************************************)
(* Room and message routes of the messaging backend                        *)
(* (src/backend/routes/room.js, src/backend/routes/messages.js) over the   *)
(* Room and Message collections (src/backend/models/Message.js) and the    *)
(* rooms list of the User collection.                                      *)
(*                                                                         *)
(* Every request is a process.  Each `await` on the store is one atomic    *)
(* step of the handler; the code between two awaits runs inside the step   *)
(* that ends it (Node runs a handler without preemption between awaits).   *)
(*                                                                         *)
(* Document fields that no handler branches on (room name, description,    *)
(* isPrivate, message type, replyTo, joinedAt, readAt, editedAt,           *)
(* updatedAt) are not carried.  The clock advances with every write of a   *)
(* timestamp that is carried (Room.lastActivity, Message.createdAt).       *)
(***************************************************************************)
EXTENDS Integers, Sequences, FiniteSets

(***************************** bounds *************************************)
NUsers == 3        \* users that send requests
NProcs == 2        \* requests that may be in flight together
MaxRooms == 1      \* rooms that may be created
MaxClock == 3      \* timestamps the clock may hand out
MaxPageMsgs == 5   \* messages a room holds when paging starts
MaxPage == 3       \* largest ?page= asked for
MaxLimit == 3      \* largest ?limit= asked for

Users == 1..NUsers
Procs == 1..NProcs
RoomIds == 1..MaxRooms
MsgIds == 1..(MaxPageMsgs + MaxClock)

NoId == 0

(************************* program constants ******************************)
NameMin == 1
NameMax == 50
CodeMin == 4
CodeMax == 8
MembersMin == 2
MembersMax == 100
DefaultMaxMembers == 50
DefaultPage == 1
DefaultLimit == 50
ContentMin == 1
ContentMax == 1000

(*************************** JSON values **********************************)
\* A request field: absent, a string (a sequence of characters) or a number.
Undefined == [t |-> "undef", s |-> <<>>, n |-> 0]
JStr(s) == [t |-> "str", s |-> s, n |-> 0]
JNum(n) == [t |-> "num", s |-> <<>>, n |-> n]

\* JavaScript truthiness of a request field.
Truthy(v) ==
  CASE v.t = "undef" -> FALSE
    [] v.t = "str" -> Len(v.s) > 0
    [] v.t = "num" -> v.n # 0

UpperChar(c) ==
  CASE c = "a" -> "A"
    [] c = "b" -> "B"
    [] c = "c" -> "C"
    [] c = "d" -> "D"
    [] OTHER -> c

\* String.prototype.toUpperCase
ToUpperCase(s) == [i \in 1..Len(s) |-> UpperChar(s[i])]

RECURSIVE TrimLeft(_)
TrimLeft(s) == IF s # <<>> /\ Head(s) = " " THEN TrimLeft(Tail(s)) ELSE s

RECURSIVE TrimRight(_)
TrimRight(s) ==
  IF s # <<>> /\ s[Len(s)] = " " THEN TrimRight(SubSeq(s, 1, Len(s) - 1)) ELSE s

\* String.prototype.trim
Trim(s) == TrimRight(TrimLeft(s))

Reverse(s) == [i \in 1..Len(s) |-> s[Len(s) + 1 - i]]

SeqRange(s) == {s[i] : i \in 1..Len(s)}

Min(a, b) == IF a < b THEN a ELSE b


(****************************** inputs ************************************)
\* Request bodies and parameters are drawn from these sets.
ValidName == JStr(<<"T">>)
LowerCode == JStr(<<"a", "b", "1", "2">>)
UpperCode == JStr(<<"A", "B", "1", "2">>)
OtherCode == JStr(<<"C", "D", "3", "4">>)
ShortCode == JStr(<<"a", "b">>)
NameInputs == {Undefined, ValidName}
CodeInputs == {Undefined, LowerCode, UpperCode, OtherCode, ShortCode}
MaxMembersInputs == {Undefined, JNum(1), JNum(2)}
\* The bodies of POST /create: the valid ones, and one for each validation error.
CreateInputs ==
  ({ValidName} \X {Undefined, LowerCode, UpperCode, OtherCode} \X {JNum(2)})
    \cup {<<Undefined, UpperCode, Undefined>>, <<ValidName, ShortCode, Undefined>>,
          <<ValidName, UpperCode, JNum(1)>>}
JoinInputs == {Undefined, LowerCode, UpperCode, OtherCode, ShortCode}
SendContentInputs == {Undefined, JStr(<<"h">>), JStr(<<" ">>)}
EditContentInputs == {Undefined, JStr(<<" ">>), JStr(<<" ", "k">>), JNum(5)}
QueryInputs(max) == {Undefined} \cup {JNum(i) : i \in 0..max}
\* generateRoomCode: up to six characters of base 36, upper-cased.
GenCodes ==
  {<<"A", "B", "1", "2">>, <<"C", "D", "3", "4">>, <<"E", "5">>}

(******************************* state ************************************)
VARIABLES
  rooms,     \* Room collection: room id -> document, or NoRoom
  users,     \* User collection: user id -> rooms list of the User document
  messages,  \* Message collection: message id -> document, or NoMsg
  nextMsgId, \* the _id the next new Message gets (an _id is never reused)
  now,       \* the clock read by new Date() / Date.now
  pc,        \* where each request's handler stands
  req,       \* what each handler still uses of the request it is serving
  loc,       \* the documents a handler holds in memory between awaits
  resp,      \* the response the last step sent (status 0: it sent none)
  wrote      \* whether the request a handler is serving has changed a document

store == <<rooms, users, messages, nextMsgId, now>>
vars == <<rooms, users, messages, nextMsgId, now, pc, req, loc, resp, wrote>>

NoRoom ==
  [code |-> <<>>, creator |-> NoId, members |-> <<>>, maxMembers |-> 0,
   v |-> -1, lastActivity |-> 0]
\* readBy is kept as the number of entries each user has in it: the handlers
\* only ask whether a user has one, and append.
NoReadBy == [u \in Users |-> 0]
NoMsg ==
  [content |-> <<>>, sender |-> NoId, room |-> NoId, edited |-> FALSE,
   readBy |-> NoReadBy, createdAt |-> 0]

NoReq ==
  [op |-> "none", caller |-> NoId, maxMembers |-> Undefined, rid |-> NoId,
   mid |-> NoId, content |-> Undefined, page |-> Undefined, limit |-> Undefined]
NoLoc ==
  [rid |-> NoId, mid |-> NoId, code |-> <<>>, members |-> <<>>, v |-> -1,
   found |-> <<>>]
NoPage == [currentPage |-> 0, totalPages |-> 0, totalMessages |-> 0, hasMore |-> FALSE]
NoResp == [status |-> 0, why |-> "", items |-> <<>>, pagination |-> NoPage]

Reply(status, why) == [NoResp EXCEPT !.status = status, !.why = why]

StoredRooms == {r \in RoomIds : rooms[r] # NoRoom}
StoredMsgs == {m \in MsgIds : messages[m] # NoMsg}

\* room.members.some(member => member.user.toString() === req.userId)
IsMember(members, u) == \E i \in 1..Len(members) : members[i].user = u

\* Room.findOne({ code }): the id of a room with that code, NoId if none.
FindOneByCode(code) ==
  IF \E r \in StoredRooms : rooms[r].code = code
  THEN CHOOSE r \in StoredRooms : rooms[r].code = code
  ELSE NoId

\* The _id given to a new document: never one that was used before.
FreshRoomId == CHOOSE r \in RoomIds : rooms[r] = NoRoom /\ \A q \in RoomIds : q < r => rooms[q] # NoRoom

TypeOK ==
  /\ now \in 0..MaxClock
  /\ resp.status \in {0, 200, 201, 400, 403, 404, 409, 500}
  /\ \A p \in Procs : pc[p] = "idle" => req[p] = NoReq /\ loc[p] = NoLoc /\ ~wrote[p]

Init ==
  /\ rooms = [r \in RoomIds |-> NoRoom]
  /\ users = [u \in Users |-> <<>>]
  /\ messages = [m \in MsgIds |-> NoMsg]
  /\ nextMsgId = 1
  /\ now = 0
  /\ pc = [p \in Procs |-> "idle"]
  /\ req = [p \in Procs |-> NoReq]
  /\ loc = [p \in Procs |-> NoLoc]
  /\ resp = NoResp
  /\ wrote = [p \in Procs |-> FALSE]

\* A request arrives at an idle worker.
Arrive(p) == pc[p] = "idle"

\* res.status(...).json(...) by the handler of p
Send(p, r) == resp' = r

\* The handler of p answers in its first step, having changed nothing.
Refuse(p, r) ==
  /\ Send(p, r)
  /\ UNCHANGED <<pc, req, loc, wrote>>

\* The handler of p takes up request r and goes on to its next await holding l.
Begin(p, r, label, l) ==
  /\ pc' = [pc EXCEPT ![p] = label]
  /\ req' = [req EXCEPT ![p] = r]
  /\ loc' = [loc EXCEPT ![p] = l]
  /\ resp' = NoResp
  /\ UNCHANGED wrote

\* The handler of p answers and ends.
Respond(p, r) ==
  /\ Send(p, r)
  /\ pc' = [pc EXCEPT ![p] = "idle"]
  /\ req' = [req EXCEPT ![p] = NoReq]
  /\ loc' = [loc EXCEPT ![p] = NoLoc]
  /\ wrote' = [wrote EXCEPT ![p] = FALSE]

\* The handler of p goes on to its next await holding l; w: it wrote a document.
Goto(p, label, l, w) ==
  /\ pc' = [pc EXCEPT ![p] = label]
  /\ loc' = [loc EXCEPT ![p] = l]
  /\ wrote' = [wrote EXCEPT ![p] = @ \/ w]
  /\ resp' = NoResp
  /\ UNCHANGED req

(***************************** room routes ********************************)
\* createRoomSchema.validate: the first failing key, "" when the body is valid.
CreateRoomError(name, code, maxMembers) ==
  CASE name.t = "undef" -> "name is required"
    [] name.t # "str" \/ Len(name.s) < NameMin \/ Len(name.s) > NameMax -> "name is invalid"
    [] code.t = "undef" -> "code is required"
    [] code.t # "str" \/ Len(code.s) < CodeMin \/ Len(code.s) > CodeMax -> "code is invalid"
    [] maxMembers.t = "undef" -> ""
    [] maxMembers.t # "num" \/ maxMembers.n < MembersMin \/ maxMembers.n > MembersMax ->
         "maxMembers is invalid"
    [] OTHER -> ""

\* joinRoomSchema.validate
JoinRoomError(code) ==
  CASE code.t = "undef" -> "code is required"
    [] code.t # "str" \/ Len(code.s) < CodeMin \/ Len(code.s) > CodeMax -> "code is invalid"
    [] OTHER -> ""

\* The codes the handler may go on with: the one given, or a generated one
\* that `while (await Room.findOne({ code }))` let through.
CreateCodes(code) ==
  IF Truthy(code) THEN {code.s} ELSE {g \in GenCodes : FindOneByCode(g) = NoId}

\* POST /create up to room.save(), for one caller and body: validation, code
\* generation, the lookup by upper-cased code.
CreateCheckWith(p, c, name, code, mm) ==
  LET r == [NoReq EXCEPT !.op = "create", !.caller = c, !.maxMembers = mm]
      err == CreateRoomError(name, code, mm)
  IN
  /\ Arrive(p)
  /\ UNCHANGED store
  /\ IF err # ""
     THEN Refuse(p, Reply(400, err))
     ELSE \E chosen \in CreateCodes(code) :
            IF FindOneByCode(ToUpperCase(chosen)) # NoId
            THEN Refuse(p, Reply(409, "code exists"))
            ELSE Begin(p, r, "create_save", [NoLoc EXCEPT !.code = ToUpperCase(chosen)])

CreateCheck(p) ==
  \E c \in Users, body \in CreateInputs :
    CreateCheckWith(p, c, body[1], body[2], body[3])

\* The schema's validators of Room.code, run by save().
CodeSchemaOk(code) == Len(code) >= CodeMin /\ Len(code) <= CodeMax

\* The unique index on Room.code lets a room with this code be inserted.
UniqueIndexAdmits(code) == FindOneByCode(code) = NoId

\* room.save() of POST /create: the insert, refused by the schema or by the
\* unique index on code (either throws, and the handler answers 500).
CreateSave(p) ==
  /\ pc[p] = "create_save"
  /\ UNCHANGED <<users, messages, nextMsgId>>
  /\ IF ~CodeSchemaOk(loc[p].code) \/ ~UniqueIndexAdmits(loc[p].code)
     THEN /\ Respond(p, Reply(500, "internal"))
          /\ UNCHANGED <<rooms, now>>
     ELSE /\ now < MaxClock
          /\ \E r \in RoomIds : rooms[r] = NoRoom
          /\ LET id == FreshRoomId
                 mm == req[p].maxMembers
             IN /\ rooms' = [rooms EXCEPT ![id] =
                      [code |-> loc[p].code,
                       creator |-> req[p].caller,
                       members |-> <<[user |-> req[p].caller, role |-> "admin"]>>,
                       maxMembers |-> IF Truthy(mm) THEN mm.n ELSE DefaultMaxMembers,
                       v |-> 0,
                       lastActivity |-> now + 1]]
                /\ Goto(p, "create_user", [NoLoc EXCEPT !.rid = id], TRUE)
          /\ now' = now + 1

\* User.findByIdAndUpdate(req.userId, { $push: { rooms: room._id } })
PushRoom(u, r) == [users EXCEPT ![u] = Append(@, r)]

\* User.findByIdAndUpdate(req.userId, { $pull: { rooms: room._id } })
PullRoom(u, r) == [users EXCEPT ![u] = SelectSeq(@, LAMBDA x : x # r)]

\* POST /create from the User update to the 201.
CreateUser(p) ==
  /\ pc[p] = "create_user"
  /\ users' = PushRoom(req[p].caller, loc[p].rid)
  /\ Respond(p, Reply(201, "created"))
  /\ UNCHANGED <<rooms, messages, nextMsgId, now>>

\* The capacity check off by one.
RoomFullOffByOne(members, maxMembers) == Len(members) > maxMembers

\* room.members.length >= room.maxMembers
RoomFull(members, maxMembers) == Len(members) >= maxMembers

\* POST /join up to room.save(), for one caller and code: validation, the
\* lookup, the two 409 checks.
JoinFindWith(p, c, code) ==
  LET r == [NoReq EXCEPT !.op = "join", !.caller = c]
      err == JoinRoomError(code)
      id == FindOneByCode(ToUpperCase(code.s))
  IN
  /\ Arrive(p)
  /\ UNCHANGED store
  /\ CASE err # "" -> Refuse(p, Reply(400, err))
       [] err = "" /\ id = NoId -> Refuse(p, Reply(404, "no room"))
       [] err = "" /\ id # NoId /\ IsMember(rooms[id].members, c) ->
            Refuse(p, Reply(409, "already member"))
       [] err = "" /\ id # NoId /\ ~IsMember(rooms[id].members, c)
            /\ RoomFull(rooms[id].members, rooms[id].maxMembers) ->
            Refuse(p, Reply(409, "room full"))
       [] OTHER ->
            Begin(p, r, "join_save", [NoLoc EXCEPT !.rid = id])

JoinFind(p) == \E c \in Users, code \in JoinInputs : JoinFindWith(p, c, code)

\* A save that appends only while the stored room has a free slot.
SaveGuardedMember(room, member, at) ==
  IF Len(room.members) >= room.maxMembers
  THEN [room EXCEPT !.lastActivity = at]
  ELSE [room EXCEPT !.members = Append(@, member), !.v = @ + 1, !.lastActivity = at]

\* save() of a document whose array got a push: { $push, $inc: { __v: 1 } },
\* applied to the stored array, with no condition on __v.
SavePushedMember(room, member, at) ==
  [room EXCEPT !.members = Append(@, member), !.v = @ + 1, !.lastActivity = at]

\* room.save() of POST /join.
JoinSave(p) ==
  /\ pc[p] = "join_save"
  /\ now < MaxClock
  /\ rooms' = [rooms EXCEPT ![loc[p].rid] =
       SavePushedMember(@, [user |-> req[p].caller, role |-> "member"], now + 1)]
  /\ now' = now + 1
  /\ Goto(p, "join_user", loc[p], TRUE)
  /\ UNCHANGED <<users, messages, nextMsgId>>

\* POST /join from the User update to the 200.
JoinUser(p) ==
  /\ pc[p] = "join_user"
  /\ users' = PushRoom(req[p].caller, loc[p].rid)
  /\ Respond(p, Reply(200, "joined"))
  /\ UNCHANGED <<rooms, messages, nextMsgId, now>>

\* GET /my-rooms
MyRooms(p) ==
  \E c \in Users :
    /\ Arrive(p)
    /\ Refuse(p, [Reply(200, "rooms") EXCEPT !.items = users[c]])
    /\ UNCHANGED store

\* GET /:roomId
GetRoom(p) ==
  \E c \in Users, rid \in RoomIds :
    /\ Arrive(p)
    /\ UNCHANGED store
    /\ CASE rooms[rid] = NoRoom -> Refuse(p, Reply(404, "no room"))
         [] rooms[rid] # NoRoom /\ ~IsMember(rooms[rid].members, c) ->
              Refuse(p, Reply(403, "denied"))
         [] OTHER -> Refuse(p, Reply(200, "room"))

\* room.members.filter(member => member.user.toString() !== req.userId)
WithoutMember(members, u) == SelectSeq(members, LAMBDA m : m.user # u)

\* POST /:roomId/leave up to room.save().
LeaveFind(p) ==
  \E c \in Users, rid \in RoomIds :
    /\ Arrive(p)
    /\ UNCHANGED store
    /\ IF rooms[rid] = NoRoom
       THEN Refuse(p, Reply(404, "no room"))
       ELSE Begin(p, [NoReq EXCEPT !.op = "leave", !.caller = c, !.rid = rid],
                  "leave_save",
                  [NoLoc EXCEPT !.rid = rid, !.members = rooms[rid].members,
                                !.v = rooms[rid].v])

\* room.save() of POST /:roomId/leave.  An array that was assigned anew is
\* written whole ($set) under the condition that __v is still the one read;
\* a stale __v throws VersionError (500).  An unchanged array is not written.
LeaveSave(p) ==
  LET rid == loc[p].rid
      kept == WithoutMember(loc[p].members, req[p].caller)
  IN
  /\ pc[p] = "leave_save"
  /\ UNCHANGED <<users, messages, nextMsgId>>
  /\ IF kept # loc[p].members /\ rooms[rid].v # loc[p].v
     THEN /\ Respond(p, Reply(500, "internal"))
          /\ UNCHANGED <<rooms, now>>
     ELSE /\ now < MaxClock
          /\ rooms' = [rooms EXCEPT ![rid] =
               IF kept # loc[p].members
               THEN [@ EXCEPT !.members = kept, !.v = @ + 1, !.lastActivity = now + 1]
               ELSE [@ EXCEPT !.lastActivity = now + 1]]
          /\ now' = now + 1
          /\ Goto(p, "leave_user", loc[p], TRUE)

\* POST /:roomId/leave from the User update to the 200.
LeaveUser(p) ==
  /\ pc[p] = "leave_user"
  /\ users' = PullRoom(req[p].caller, loc[p].rid)
  /\ Respond(p, Reply(200, "left"))
  /\ UNCHANGED <<rooms, messages, nextMsgId, now>>

(**************************** message routes ******************************)
\* parseInt(req.query.x) || dflt
ParseIntOr(v, dflt) == IF v.t = "num" /\ v.n # 0 THEN v.n ELSE dflt

\* const skip = (page - 1) * limit
PageSkip(page, limit) == (page - 1) * limit

RoomMsgs(rid) == {m \in StoredMsgs : messages[m].room = rid}

\* .sort({ createdAt: -1 }): the ids of S, newest first.
RECURSIVE SortNewestFirst(_)
SortNewestFirst(S) ==
  IF S = {} THEN <<>>
  ELSE LET m == CHOOSE x \in S : \A y \in S : messages[y].createdAt <= messages[x].createdAt
       IN <<m>> \o SortNewestFirst(S \ {m})

\* Message.find({ room }).sort({ createdAt: -1 }).limit(limit).skip(skip)
FindPage(rid, skip, limit) ==
  LET all == SortNewestFirst(RoomMsgs(rid))
      last == Min(skip + limit, Len(all))
  IN IF skip + 1 > last THEN <<>> ELSE SubSeq(all, skip + 1, last)

\* Math.ceil(total / limit)
CeilDiv(total, limit) == (total + limit - 1) \div limit

\* hasMore: skip + messages.length < totalMessages
HasMore(skip, returned, total) == skip + returned < total

\* The page returned as found, newest first.
NotReversed(found) == found

\* messages.reverse()
Chronological(found) == Reverse(found)

\* GET /room/:roomId up to Message.find, for one caller, room and query: the
\* room lookup, the membership check.
ListRoomWith(p, c, rid, page, limit) ==
  /\ Arrive(p)
  /\ UNCHANGED store
  /\ CASE rooms[rid] = NoRoom -> Refuse(p, Reply(404, "no room"))
       [] rooms[rid] # NoRoom /\ ~IsMember(rooms[rid].members, c) ->
            Refuse(p, Reply(403, "denied"))
       [] OTHER ->
            Begin(p, [NoReq EXCEPT !.op = "list", !.caller = c, !.rid = rid,
                                   !.page = page, !.limit = limit],
                  "list_find", [NoLoc EXCEPT !.rid = rid])

ListRoomIn(p, Pages, Limits) ==
  \E c \in Users, rid \in RoomIds, page \in Pages, limit \in Limits :
    ListRoomWith(p, c, rid, page, limit)

ListRoom(p) == ListRoomIn(p, QueryInputs(MaxPage), QueryInputs(MaxLimit))

\* Message.find(...) of GET /room/:roomId.
ListFind(p) ==
  LET page == ParseIntOr(req[p].page, DefaultPage)
      limit == ParseIntOr(req[p].limit, DefaultLimit)
  IN
  /\ pc[p] = "list_find"
  /\ Goto(p, "list_count",
          [loc[p] EXCEPT !.found = FindPage(loc[p].rid, PageSkip(page, limit), limit)],
          FALSE)
  /\ UNCHANGED store

\* Message.countDocuments(...) of GET /room/:roomId, and the 200.
ListCount(p) ==
  LET page == ParseIntOr(req[p].page, DefaultPage)
      limit == ParseIntOr(req[p].limit, DefaultLimit)
      total == Cardinality(RoomMsgs(loc[p].rid))
  IN
  /\ pc[p] = "list_count"
  /\ Respond(p, [Reply(200, "messages") EXCEPT
       !.items = Chronological(loc[p].found),
       !.pagination =
         [currentPage |-> page,
          totalPages |-> CeilDiv(total, limit),
          totalMessages |-> total,
          hasMore |-> HasMore(PageSkip(page, limit), Len(loc[p].found), total)]])
  /\ UNCHANGED store

\* sendMessageSchema.validate (rid = NoId: the body has no roomId)
SendError(content, rid) ==
  CASE content.t = "undef" -> "content is required"
    [] content.t # "str" \/ Len(content.s) < ContentMin \/ Len(content.s) > ContentMax ->
         "content is invalid"
    [] rid = NoId -> "roomId is required"
    [] OTHER -> ""

\* POST /send up to message.save(), for one caller and body: validation, the
\* room lookup, the membership check.
SendCheckWith(p, c, content, rid) ==
  LET err == SendError(content, rid)
  IN
  /\ Arrive(p)
  /\ UNCHANGED store
  /\ CASE err # "" -> Refuse(p, Reply(400, err))
       [] err = "" /\ rooms[rid] = NoRoom -> Refuse(p, Reply(404, "no room"))
       [] err = "" /\ rooms[rid] # NoRoom /\ ~IsMember(rooms[rid].members, c) ->
            Refuse(p, Reply(403, "denied"))
       [] OTHER ->
            Begin(p, [NoReq EXCEPT !.op = "send", !.caller = c, !.rid = rid,
                                   !.content = content],
                  "send_save", [NoLoc EXCEPT !.rid = rid])

SendCheck(p) ==
  \E c \in Users, content \in SendContentInputs, rid \in RoomIds \cup {NoId} :
    SendCheckWith(p, c, content, rid)

\* message.save() of POST /send: the schema trims the content and requires
\* it to be non-empty (a failed validator throws: 500); then the insert.
SendSave(p) ==
  LET text == Trim(req[p].content.s)
  IN
  /\ pc[p] = "send_save"
  /\ UNCHANGED <<rooms, users>>
  /\ IF Len(text) = 0
     THEN /\ Respond(p, Reply(500, "internal"))
          /\ UNCHANGED <<messages, nextMsgId, now>>
     ELSE /\ now < MaxClock
          /\ nextMsgId \in MsgIds
          /\ messages' = [messages EXCEPT ![nextMsgId] =
               [content |-> text, sender |-> req[p].caller, room |-> loc[p].rid,
                edited |-> FALSE, readBy |-> NoReadBy, createdAt |-> now + 1]]
          /\ nextMsgId' = nextMsgId + 1
          /\ now' = now + 1
          /\ Goto(p, "send_room", [loc[p] EXCEPT !.mid = nextMsgId], TRUE)

\* room.lastActivity = new Date(); room.save() of POST /send, and the 201.
SendRoom(p) ==
  /\ pc[p] = "send_room"
  /\ now < MaxClock
  /\ rooms' = [rooms EXCEPT ![loc[p].rid].lastActivity = now + 1]
  /\ now' = now + 1
  /\ Respond(p, Reply(201, "sent"))
  /\ UNCHANGED <<users, messages, nextMsgId>>

\* The message ids a request may name: those given out, and one never given.
MsgIdInputs == {m \in MsgIds : m <= nextMsgId}

\* message.readBy.some(read => read.user.toString() === req.userId)
AlreadyRead(readBy, u) == readBy[u] > 0

\* message.readBy.push({ user: req.userId, readAt: new Date() })
PushRead(readBy, u) == [readBy EXCEPT ![u] = @ + 1]

\* POST /:messageId/read up to message.save(), for one caller and message.
ReadFindWith(p, c, mid) ==
  /\ Arrive(p)
  /\ UNCHANGED store
  /\ CASE messages[mid] = NoMsg -> Refuse(p, Reply(404, "no message"))
       [] messages[mid] # NoMsg /\ AlreadyRead(messages[mid].readBy, c) ->
            Refuse(p, Reply(200, "read"))
       [] OTHER ->
            Begin(p, [NoReq EXCEPT !.op = "read", !.caller = c, !.mid = mid],
                  "read_save", [NoLoc EXCEPT !.mid = mid])

ReadFind(p) == \E c \in Users, mid \in MsgIdInputs : ReadFindWith(p, c, mid)

\* message.save() of POST /:messageId/read: { $push: { readBy } } on the
\* stored document; a document that is gone throws (500).
ReadSave(p) ==
  /\ pc[p] = "read_save"
  /\ UNCHANGED <<rooms, users, nextMsgId>>
  /\ IF messages[loc[p].mid] = NoMsg
     THEN /\ Respond(p, Reply(500, "internal"))
          /\ UNCHANGED <<messages, now>>
     ELSE /\ messages' = [messages EXCEPT ![loc[p].mid].readBy = PushRead(@, req[p].caller)]
          /\ UNCHANGED now
          /\ Respond(p, Reply(200, "read"))

\* The ownership check against the room's creator instead of the sender.
NotCreator(msg, u) == rooms[msg.room].creator # u

\* message.sender.toString() !== req.userId
NotSender(msg, u) == msg.sender # u

\* !content || content.trim().length === 0
EmptyContent(content) ==
  ~Truthy(content) \/ (content.t = "str" /\ Len(Trim(content.s)) = 0)

\* PUT /:messageId up to message.save(), for one caller, message and body.
\* content.trim() on a value that is not a string throws inside the try: 500.
EditFindWith(p, c, mid, content) ==
  /\ Arrive(p)
  /\ UNCHANGED store
  /\ CASE EmptyContent(content) -> Refuse(p, Reply(400, "content is empty"))
       [] ~EmptyContent(content) /\ content.t # "str" ->
            Refuse(p, Reply(500, "internal"))
       [] ~EmptyContent(content) /\ content.t = "str" /\ messages[mid] = NoMsg ->
            Refuse(p, Reply(404, "no message"))
       [] ~EmptyContent(content) /\ content.t = "str" /\ messages[mid] # NoMsg
            /\ NotSender(messages[mid], c) ->
            Refuse(p, Reply(403, "edit own only"))
       [] OTHER ->
            Begin(p, [NoReq EXCEPT !.op = "edit", !.caller = c, !.mid = mid,
                                   !.content = content],
                  "edit_save", [NoLoc EXCEPT !.mid = mid])

EditFind(p) ==
  \E c \in Users, mid \in MsgIdInputs, content \in EditContentInputs :
    EditFindWith(p, c, mid, content)

\* message.save() of PUT /:messageId, and the 200.
EditSave(p) ==
  /\ pc[p] = "edit_save"
  /\ UNCHANGED <<rooms, users, nextMsgId>>
  /\ IF messages[loc[p].mid] = NoMsg
     THEN /\ Respond(p, Reply(500, "internal"))
          /\ UNCHANGED <<messages, now>>
     ELSE /\ messages' = [messages EXCEPT ![loc[p].mid] =
               [@ EXCEPT !.content = Trim(req[p].content.s), !.edited = TRUE]]
          /\ UNCHANGED now
          /\ Respond(p, Reply(200, "edited"))

\* DELETE /:messageId up to Message.findByIdAndDelete, for one caller and message.
DeleteFindWith(p, c, mid) ==
  /\ Arrive(p)
  /\ UNCHANGED store
  /\ CASE messages[mid] = NoMsg -> Refuse(p, Reply(404, "no message"))
       [] messages[mid] # NoMsg /\ NotSender(messages[mid], c) ->
            Refuse(p, Reply(403, "delete own only"))
       [] OTHER ->
            Begin(p, [NoReq EXCEPT !.op = "delete", !.caller = c, !.mid = mid],
                  "delete_remove", [NoLoc EXCEPT !.mid = mid])

DeleteFind(p) == \E c \in Users, mid \in MsgIdInputs : DeleteFindWith(p, c, mid)

\* Message.findByIdAndDelete of DELETE /:messageId, and the 200.
DeleteRemove(p) ==
  /\ pc[p] = "delete_remove"
  /\ messages' = [messages EXCEPT ![loc[p].mid] = NoMsg]
  /\ Respond(p, Reply(200, "deleted"))
  /\ UNCHANGED <<rooms, users, nextMsgId, now>>

(**************************** specifications ******************************)
RoomStep(p) ==
  \/ CreateCheck(p) \/ CreateSave(p) \/ CreateUser(p)
  \/ JoinFind(p) \/ JoinSave(p) \/ JoinUser(p)
  \/ MyRooms(p) \/ GetRoom(p)
  \/ LeaveFind(p) \/ LeaveSave(p) \/ LeaveUser(p)

MessageStep(p) ==
  \/ ListFind(p) \/ ListCount(p)
  \/ SendCheck(p) \/ SendSave(p) \/ SendRoom(p)
  \/ ReadFind(p) \/ ReadSave(p)
  \/ EditFind(p) \/ EditSave(p)
  \/ DeleteFind(p) \/ DeleteRemove(p)

\* The whole service.
Next == \E p \in Procs : RoomStep(p) \/ ListRoom(p) \/ MessageStep(p)

Spec == Init /\ [][Next]_vars

\* The routes that change rooms, from the empty store.
NextRooms ==
  \E p \in Procs :
    \/ CreateCheck(p) \/ CreateSave(p) \/ CreateUser(p)
    \/ JoinFind(p) \/ JoinSave(p) \/ JoinUser(p)
    \/ LeaveFind(p) \/ LeaveSave(p) \/ LeaveUser(p)

SpecRooms == Init /\ [][NextRooms]_vars


\* A store with one room, created by user 1 and joined by user 2.
SettledRoom ==
  [code |-> <<"A", "B", "1", "2">>, creator |-> 1,
   members |-> <<[user |-> 1, role |-> "admin"], [user |-> 2, role |-> "member"]>>,
   maxMembers |-> DefaultMaxMembers, v |-> 1, lastActivity |-> 0]

InitSettled ==
  /\ rooms = [r \in RoomIds |-> IF r = 1 THEN SettledRoom ELSE NoRoom]
  /\ users = [u \in Users |-> IF u \in {1, 2} THEN <<1>> ELSE <<>>]
  /\ now = 0
  /\ pc = [p \in Procs |-> "idle"]
  /\ req = [p \in Procs |-> NoReq]
  /\ loc = [p \in Procs |-> NoLoc]
  /\ resp = NoResp
  /\ wrote = [p \in Procs |-> FALSE]

InitMessages ==
  /\ InitSettled
  /\ messages = [m \in MsgIds |-> NoMsg]
  /\ nextMsgId = 1

\* The message routes over the settled room, listing with the default query.
NextMessages ==
  \E p \in Procs : ListRoomIn(p, {Undefined}, {Undefined}) \/ MessageStep(p)

SpecMessages == InitMessages /\ [][NextMessages]_vars

\* Sending, editing and deleting messages in the settled room.
NextEdit ==
  \E p \in Procs :
    \/ SendCheck(p) \/ SendSave(p) \/ SendRoom(p)
    \/ EditFind(p) \/ EditSave(p)
    \/ DeleteFind(p) \/ DeleteRemove(p)

SpecEdit == InitMessages /\ [][NextEdit]_vars

\* The settled room holding n messages sent in turn by its two members.
InitPage ==
  /\ InitSettled
  /\ \E n \in 0..MaxPageMsgs :
       /\ messages = [m \in MsgIds |->
            IF m <= n
            THEN [content |-> <<"h">>, sender |-> 1 + (m % 2), room |-> 1,
                  edited |-> FALSE, readBy |-> NoReadBy,
                  createdAt |-> m - MaxPageMsgs - 1]
            ELSE NoMsg]
       /\ nextMsgId = n + 1

\* One worker serving list, send and delete requests one after the other.
NextPage ==
  \/ ListRoom(1) \/ ListFind(1) \/ ListCount(1)
  \/ SendCheck(1) \/ SendSave(1) \/ SendRoom(1)
  \/ DeleteFind(1) \/ DeleteRemove(1)

SpecPage == InitPage /\ [][NextPage]_vars

\* An await on the store throws (the connection drops, the server refuses):
\* the catch block answers 500.
StoreFail(p) ==
  /\ pc[p] # "idle"
  /\ Respond(p, Reply(500, "internal"))
  /\ UNCHANGED store

\* One worker serving the routes that write, with a store that may fail.
NextFail ==
  \/ CreateCheck(1) \/ CreateSave(1) \/ CreateUser(1)
  \/ JoinFind(1) \/ JoinSave(1) \/ JoinUser(1)
  \/ LeaveFind(1) \/ LeaveSave(1) \/ LeaveUser(1)
  \/ SendCheck(1) \/ SendSave(1) \/ SendRoom(1)
  \/ ReadFind(1) \/ ReadSave(1)
  \/ EditFind(1) \/ EditSave(1)
  \/ DeleteFind(1) \/ DeleteRemove(1)
  \/ StoreFail(1)

SpecFail == Init /\ [][NextFail]_vars


(***************************** properties *********************************)
\* c has no entry in the members of the stored room rid.
NonMember(c, rid) ==
  /\ rooms[rid] # NoRoom
  /\ \A i \in 1..Len(rooms[rid].members) : rooms[rid].members[i].user # c

\* C1: a request by a caller who is not a member of room r to list r's
\* messages, to send a (well-formed) message to r, or to read-mark a message
\* of r is answered 403 and changes no Message and no Room.
C1_NonMemberRefused ==
  [][\A p \in Procs :
       /\ \A rid \in StoredRooms, c \in Users :
            NonMember(c, rid) =>
              /\ ListRoomWith(p, c, rid, Undefined, Undefined) =>
                   resp'.status = 403 /\ UNCHANGED <<rooms, messages>>
              /\ \A content \in SendContentInputs :
                   SendError(content, rid) = "" /\ SendCheckWith(p, c, content, rid) =>
                     resp'.status = 403 /\ UNCHANGED <<rooms, messages>>
       /\ \A mid \in StoredMsgs, c \in Users :
            (/\ NonMember(c, messages[mid].room)
             /\ \/ ReadFindWith(p, c, mid)
                \/ pc[p] = "read_save" /\ req[p].caller = c /\ loc[p].mid = mid
                   /\ ReadSave(p)) =>
              /\ pc'[p] = "idle" => resp'.status = 403
              /\ UNCHANGED <<rooms, messages>>
    ]_vars

\* C2: joinRoom with the code of a stored room that has members.length >=
\* maxMembers, by a user who is not a member of it, answers 409 (room full)
\* and leaves the room's members and every User.rooms list as they were.
C2_FullRoomRefuses ==
  [][\A code \in JoinInputs :
       LET id == FindOneByCode(ToUpperCase(code.s))
       IN (/\ JoinRoomError(code) = ""
           /\ id # NoId
           /\ Len(rooms[id].members) >= rooms[id].maxMembers) =>
            \A c \in Users :
              NonMember(c, id) =>
                \A p \in Procs :
                  (pc[p] = "idle" /\ JoinFindWith(p, c, code)) =>
                    /\ resp' = Reply(409, "room full")
                    /\ pc'[p] = "idle"
                    /\ rooms' = rooms
                    /\ users' = users
    ]_vars

\* A join was refused because the room is full.
C2_Witness ==
  /\ resp = Reply(409, "room full")
  /\ \E r \in StoredRooms : Len(rooms[r].members) >= rooms[r].maxMembers

\* No two stored rooms have the same code.
UniqueCodes ==
  \A r1, r2 \in StoredRooms : rooms[r1].code = rooms[r2].code => r1 = r2

\* C3: no two stored rooms ever share a code, and a createRoom request whose
\* (upper-cased) code is the code of a stored room answers 409 and creates no
\* room, whether it meets the stored room at its lookup or, having overlapped
\* with the request that stored it, at its save.
C3_DuplicateCodeRefused ==
  /\ []UniqueCodes
  /\ [][\A p \in Procs :
          /\ \A c \in Users, body \in CreateInputs :
               (/\ CreateRoomError(body[1], body[2], body[3]) = ""
                /\ Truthy(body[2])
                /\ FindOneByCode(ToUpperCase(body[2].s)) # NoId
                /\ CreateCheckWith(p, c, body[1], body[2], body[3])) =>
                 resp'.status = 409 /\ rooms' = rooms
          /\ (/\ pc[p] = "create_save"
              /\ FindOneByCode(loc[p].code) # NoId
              /\ CreateSave(p)) =>
               resp'.status = 409 /\ rooms' = rooms
       ]_vars

\* C4: however markRead requests overlap, a stored message's readBy holds at
\* most one entry for each user.
C4_OneEntryPerUser ==
  \A m \in StoredMsgs, u \in Users : messages[m].readBy[u] <= 1

\* C5 as stated: editMessage and deleteMessage of a stored message by a caller
\* who is not its sender answer 403 and leave the message as it is, whatever
\* content the edit carries.
C5_NonSenderAlways403 ==
  [][\A p \in Procs, mid \in StoredMsgs :
       \A c \in Users \ {messages[mid].sender} :
         /\ \A content \in EditContentInputs :
              EditFindWith(p, c, mid, content) =>
                resp'.status = 403 /\ pc'[p] = "idle" /\ messages' = messages
         /\ DeleteFindWith(p, c, mid) =>
              resp'.status = 403 /\ pc'[p] = "idle" /\ messages' = messages
    ]_vars

\* The content is a string with a character that is not a space.
HasText(content) ==
  content.t = "str" /\ \E i \in 1..Len(content.s) : content.s[i] # " "

\* C5 amended: deleteMessage by a non-sender answers 403; editMessage by a
\* non-sender answers 403 when its content is a string that is not blank, 400
\* when the content is missing, empty or blank, 500 when it is another value;
\* in every case the message stays stored and unchanged.
C5_NonSenderRefused ==
  [][\A p \in Procs, mid \in StoredMsgs :
       \A c \in Users \ {messages[mid].sender} :
         /\ \A content \in EditContentInputs :
              EditFindWith(p, c, mid, content) =>
                /\ resp'.status =
                     IF HasText(content) THEN 403
                     ELSE IF content.t = "num" /\ content.n # 0 THEN 500 ELSE 400
                /\ pc'[p] = "idle"
                /\ messages' = messages
         /\ DeleteFindWith(p, c, mid) =>
              resp'.status = 403 /\ pc'[p] = "idle" /\ messages' = messages
    ]_vars

\* An edit was refused to a caller who is not the sender.
C5_Witness ==
  /\ resp = Reply(403, "edit own only")
  /\ StoredMsgs # {}

\* C6: createRoom with a valid name and no code is not refused: it goes on to
\* save a room under a generated code that no stored room uses.
C6_NoCodeCreates ==
  [][\A p \in Procs, c \in Users, mm \in {Undefined, JNum(2)} :
       CreateCheckWith(p, c, ValidName, Undefined, mm) =>
         /\ pc'[p] = "create_save"
         /\ FindOneByCode(loc'[p].code) = NoId
    ]_vars

\* The position of message m among the messages of its room, newest first,
\* counted from 0.
NewestFirstPos(m) ==
  Cardinality({x \in RoomMsgs(messages[m].room) :
                 messages[x].createdAt > messages[m].createdAt})

\* The messages of room rid at the newest-first positions (page-1)*limit up to
\* min(page*limit, n)-1, oldest first.
ExpectedPage(rid, page, limit) ==
  LET n == Cardinality(RoomMsgs(rid))
      first == (page - 1) * limit
      last == Min(page * limit, n) - 1
      k == IF last >= first THEN last - first + 1 ELSE 0
  IN [i \in 1..k |-> CHOOSE m \in RoomMsgs(rid) : NewestFirstPos(m) = last - (i - 1)]

\* ceil(n / limit), by its defining inequalities.
Ceiling(n, limit) == CHOOSE q \in 0..n : q * limit >= n /\ (q - 1) * limit < n

\* C7: a listMessages request with page p >= 1 and limit l >= 1 that runs with
\* no other request returns the messages at the newest-first positions
\* (p-1)*l .. min(p*l, n)-1 oldest first, with currentPage = p,
\* totalMessages = n, totalPages = ceil(n/l) and
\* hasMore = ((p-1)*l + number returned < n).
C7_Pagination ==
  [][\A page \in 1..MaxPage, limit \in 1..MaxLimit :
       (/\ pc[1] = "list_count"
        /\ req[1].page = JNum(page)
        /\ req[1].limit = JNum(limit)
        /\ ListCount(1)) =>
         LET rid == req[1].rid
             n == Cardinality(RoomMsgs(rid))
         IN /\ resp'.status = 200
            /\ resp'.items = ExpectedPage(rid, page, limit)
            /\ resp'.pagination =
                 [currentPage |-> page,
                  totalPages |-> Ceiling(n, limit),
                  totalMessages |-> n,
                  hasMore |-> ((page - 1) * limit + Len(resp'.items) < n)]
    ]_vars

\* page=1, limit=2 on a room of 5 messages: the 2 newest, oldest first.
C7_Witness ==
  /\ resp.status = 200
  /\ resp.why = "messages"
  /\ Len(resp.items) = 2
  /\ messages[resp.items[1]].createdAt < messages[resp.items[2]].createdAt
  /\ resp.pagination =
       [currentPage |-> 1, totalPages |-> 3, totalMessages |-> 5, hasMore |-> TRUE]

\* C8: a request that ends in an error response (4xx, 500) has changed no
\* Room, Message or User document.
C8_NoPartialFailure ==
  [][resp'.status >= 400 =>
       /\ UNCHANGED <<rooms, users, messages>>
       /\ \A p \in Procs : (pc[p] # "idle" /\ pc'[p] = "idle") => ~wrote[p]
    ]_vars

\* C9: the capacity check of joinRoom is made once, at the lookup.  A join
\* that saw a free slot goes on whatever other joins are in flight; its save
\* appends the caller to the stored members even when the room has filled up
\* meanwhile, taking members.length above maxMembers; and it answers 200.
C9_JoinRace ==
  [][/\ \A code \in JoinInputs :
          LET id == FindOneByCode(ToUpperCase(code.s))
          IN (/\ JoinRoomError(code) = ""
              /\ id # NoId
              /\ Len(rooms[id].members) < rooms[id].maxMembers) =>
               \A c \in Users :
                 NonMember(c, id) =>
                   \A p \in Procs :
                     (pc[p] = "idle" /\ JoinFindWith(p, c, code)) =>
                       pc'[p] = "join_save" /\ loc'[p].rid = id
     /\ \A p \in Procs :
          /\ (pc[p] = "join_save" /\ JoinSave(p)) =>
               LET r == loc[p].rid
               IN /\ rooms'[r].members =
                       Append(rooms[r].members, [user |-> req[p].caller, role |-> "member"])
                  /\ Len(rooms[r].members) >= rooms[r].maxMembers =>
                       Len(rooms'[r].members) > rooms'[r].maxMembers
          /\ (pc[p] = "join_user" /\ JoinUser(p)) => resp' = Reply(200, "joined")
    ]_vars

\* Two joins that overlapped on the last free slot have both been answered
\* 200: the room holds more members than maxMembers.
C9_Witness ==
  /\ resp = Reply(200, "joined")
  /\ \A p \in Procs : pc[p] = "idle"
  /\ \E r \in StoredRooms :
       /\ Len(rooms[r].members) > rooms[r].maxMembers
       /\ \E i, j \in 1..Len(rooms[r].members) :
            /\ i # j
            /\ rooms[r].members[i].role = "member"
            /\ rooms[r].members[j].role = "member"
            /\ rooms[r].members[i].user # rooms[r].members[j].user
            /\ r \in SeqRange(users[rooms[r].members[i].user])
            /\ r \in SeqRange(users[rooms[r].members[j].user])

\* C10: whenever no request is in flight, a user has an entry in a room's
\* members exactly if the room is in the user's rooms list.  Stated for the
\* users other than the room's creator, who join and leave a room they know.
C10_MembershipConsistent ==
  (\A p \in Procs : pc[p] = "idle") =>
    \A r \in StoredRooms : \A u \in Users \ {rooms[r].creator} :
      IsMember(rooms[r].members, u) <=> r \in SeqRange(users[u])

=============================================================================
